---- MODULE Spec2Model ----
(***************************************************************************)
(* Model of src/main.ts: unit conversion with fallback, cheapest-supplier  *)
(* selection, nutrient aggregation and the per-recipe summary.             *)
(*                                                                         *)
(* Numbers are exact non-negative rationals [n, d] in lowest terms, with   *)
(* the two non-finite values a JavaScript division can produce here:       *)
(* Infinity = [n |-> 1, d |-> 0] and NaN = [n |-> 0, d |-> 0].             *)
(* Floating-point rounding is not modelled.                                *)
(***************************************************************************)
EXTENDS Integers, Sequences, FiniteSets

\* ------------------------------------------------------------ bounds

\* Converted amounts range over 0..MaxAmount (plus 500 and 1000).
MaxAmount == 2
\* A candidate list holds at most this many products and suppliers together.
MaxCandidates == 4
\* recipeData holds at most this many recipes and line items together.
MaxRecipeData == 5

\* ------------------------------------------------------------ numbers

RECURSIVE GCD(_, _)
GCD(a, b) == IF b = 0 THEN a ELSE GCD(b, a % b)

Norm(n, d) ==
  IF n = 0 /\ d = 0 THEN [n |-> 0, d |-> 0]
  ELSE LET g == GCD(n, d) IN [n |-> n \div g, d |-> d \div g]

Num(k) == [n |-> k, d |-> 1]
Frac(a, b) == Norm(a, b)
NaN == [n |-> 0, d |-> 0]
Infinity == [n |-> 1, d |-> 0]
IsNaN(x) == x.n = 0 /\ x.d = 0
IsFinite(x) == x.d # 0

\* x * y
Mul(x, y) == Norm(x.n * y.n, x.d * y.d)
\* x / y
Div(x, y) == Norm(x.n * y.d, x.d * y.n)
\* x + y
Add(x, y) ==
  IF x.d = 0 /\ y.d = 0
  THEN (IF IsNaN(x) \/ IsNaN(y) THEN NaN ELSE Infinity)
  ELSE Norm(x.n * y.d + y.n * x.d, x.d * y.d)
\* x < y (false whenever either side is NaN)
Lt(x, y) == x.n * y.d < y.n * x.d
\* x <= y (false whenever either side is NaN)
Le(x, y) == ~IsNaN(x) /\ ~IsNaN(y) /\ ~Lt(y, x)

\* ------------------------------------------------------------ units

Unit(name, type) == [uomName |-> name, uomType |-> type]
Units ==
  { Unit("grams", "mass"), Unit("kilogram", "mass"),
    Unit("millilitres", "volume"), Unit("cups", "volume"),
    Unit("whole", "count") }

UoM(amount, name, type) ==
  [uomAmount |-> amount, uomName |-> name, uomType |-> type]

Entry(fn, ft, tn, tt, f) ==
  [fromName |-> fn, fromType |-> ft, toName |-> tn, toType |-> tt, factor |-> f]

\* The direct conversions a table may hold besides unit -> same unit.
KgToG == Entry("kilogram", "mass", "grams", "mass", Num(1000))
GToKg == Entry("grams", "mass", "kilogram", "mass", Frac(1, 1000))
CupsToMl == Entry("cups", "volume", "millilitres", "volume", Num(250))
MlToCups == Entry("millilitres", "volume", "cups", "volume", Frac(1, 250))
MlToG == Entry("millilitres", "volume", "grams", "mass", Num(1))
GToMl == Entry("grams", "mass", "millilitres", "volume", Num(1))

IdentityEntries ==
  { Entry(u.uomName, u.uomType, u.uomName, u.uomType, Num(1)) : u \in Units }
CrossEntries == { KgToG, GToKg, CupsToMl, MlToCups, MlToG, GToMl }

\* Density 1 g/ml.
FullTable == IdentityEntries \cup CrossEntries
\* Density 2 g/ml.
DenseTable ==
  (FullTable \ { MlToG, GToMl })
    \cup { Entry("millilitres", "volume", "grams", "mass", Num(2)),
           Entry("grams", "mass", "millilitres", "volume", Frac(1, 2)) }
\* Tables with one direct conversion missing.
Tables == { FullTable, DenseTable } \cup { FullTable \ { e } : e \in CrossEntries }

VARIABLES
  table,             \* the conversion table behind ConvertUnits
  pc,                \* position of the running operation
  fromUoM, toUoMName, toUoMType,   \* arguments of convertUnitsWithFallback
  conversion,        \* its outcome
  ingredient, availableProducts,   \* arguments of findCheapestSupplier
  selection,         \* its outcome
  recipes,           \* recipeData, what GetRecipes returned
  products,          \* what GetProductsForIngredient returns, per ingredient name
  recipeIndex,       \* the recipe the outer loop is at
  lineIndex,         \* the line item the inner loop is at
  totalCost, nutrientMap,          \* the accumulators of the current recipe
  summary,           \* the local result of calculateRecipeSummary
  recipeSummary,     \* the global result object
  thrown             \* the error that left calculateRecipeSummary, if any

convertVars == << fromUoM, toUoMName, toUoMType, conversion >>
selectVars == << ingredient, availableProducts, selection >>
inputVars == << recipes, products >>
runVars == << recipeIndex, lineIndex, totalCost, nutrientMap, summary,
              recipeSummary, thrown >>
vars == << table, pc, convertVars, selectVars, inputVars, runVars >>

\* ------------------------------------------------------------ results

\* F applied to the value of v, with v evaluated once.
WithValue(v, F(_)) == CHOOSE r \in { F(x) : x \in { v } } : TRUE

Return(v) == [ok |-> TRUE, value |-> v]
Throw(e) == [ok |-> FALSE, error |-> e]

\* ------------------------------------------------------------ conversion

Call(from, toName, toType) ==
  [from |-> from, toName |-> toName, toType |-> toType]

\* The single-hop primitive: one table lookup.
ConvertUnits(from, toName, toType) ==
  LET m == { e \in table : /\ e.fromName = from.uomName
                           /\ e.fromType = from.uomType
                           /\ e.toName = toName
                           /\ e.toType = toType }
  IN IF m = {}
     THEN Throw([kind |-> "NoTableEntry",
                 fromName |-> from.uomName, toName |-> toName])
     ELSE Return(UoM(Mul(from.uomAmount, (CHOOSE e \in m : TRUE).factor),
                     toName, toType))

\* Three successive hops; the first hop that throws ends the chain with its error.
\* `calls` lists the ConvertUnits calls made, in order.
Chain3(from, n1, t1, n2, t2, n3, t3) ==
  WithValue(ConvertUnits(from, n1, t1), LAMBDA h1 :
  WithValue(<< Call(from, n1, t1) >>, LAMBDA c1 :
    IF ~h1.ok THEN [ok |-> FALSE, error |-> h1.error, calls |-> c1]
    ELSE
      WithValue(ConvertUnits(h1.value, n2, t2), LAMBDA h2 :
      WithValue(Append(c1, Call(h1.value, n2, t2)), LAMBDA c2 :
        IF ~h2.ok THEN [ok |-> FALSE, error |-> h2.error, calls |-> c2]
        ELSE
          WithValue(ConvertUnits(h2.value, n3, t3), LAMBDA h3 :
          WithValue(Append(c2, Call(h2.value, n3, t3)), LAMBDA c3 :
            IF ~h3.ok THEN [ok |-> FALSE, error |-> h3.error, calls |-> c3]
            ELSE [ok |-> TRUE, value |-> h3.value, calls |-> c3]))))))

\* Mutant: the last hop is left out, the result stays in grams.
handleVolumeToMassInGrams(from, toName) ==
  Chain3(from, "millilitres", "volume", "grams", "mass", "grams", "mass")

handleVolumeToMassConversion(from, toName) ==
  Chain3(from, "millilitres", "volume", "grams", "mass", toName, "mass")

handleMassToVolumeConversion(from, toName) ==
  Chain3(from, "grams", "mass", "millilitres", "volume", toName, "volume")

UnsupportedConversion(from, toName, toType) ==
  [kind |-> "UnsupportedConversion",
   fromType |-> from.uomType, fromName |-> from.uomName,
   toType |-> toType, toName |-> toName]

\* Mutant: a failed hop of the fallback is reported as the descriptive error.
convertUnitsWithWrappedHopErrors(from, toName, toType) ==
  WithValue(ConvertUnits(from, toName, toType), LAMBDA direct :
  WithValue(<< Call(from, toName, toType) >>, LAMBDA c0 :
    IF direct.ok THEN [ok |-> TRUE, value |-> direct.value, calls |-> c0]
    ELSE IF (from.uomType = "volume" /\ toType = "mass")
              \/ (from.uomType = "mass" /\ toType = "volume")
      THEN WithValue(IF from.uomType = "volume"
                     THEN handleVolumeToMassConversion(from, toName)
                     ELSE handleMassToVolumeConversion(from, toName), LAMBDA f :
             IF f.ok THEN [f EXCEPT !.calls = c0 \o f.calls]
             ELSE [ok |-> FALSE,
                   error |-> UnsupportedConversion(from, toName, toType),
                   calls |-> c0 \o f.calls])
    ELSE [ok |-> FALSE, error |-> UnsupportedConversion(from, toName, toType),
          calls |-> c0]))

convertUnitsWithFallback(from, toName, toType) ==
  WithValue(ConvertUnits(from, toName, toType), LAMBDA direct :
  WithValue(<< Call(from, toName, toType) >>, LAMBDA c0 :
    IF direct.ok THEN [ok |-> TRUE, value |-> direct.value, calls |-> c0]
    ELSE IF from.uomType = "volume" /\ toType = "mass"
      THEN WithValue(handleVolumeToMassConversion(from, toName), LAMBDA f :
             [f EXCEPT !.calls = c0 \o f.calls])
    ELSE IF from.uomType = "mass" /\ toType = "volume"
      THEN WithValue(handleMassToVolumeConversion(from, toName), LAMBDA f :
             [f EXCEPT !.calls = c0 \o f.calls])
    ELSE [ok |-> FALSE, error |-> UnsupportedConversion(from, toName, toType),
          calls |-> c0]))

\* ------------------------------------------------------------ selection

SupplierProduct(price, uom) ==
  [supplierPrice |-> price, supplierProductUoM |-> uom]
Product(suppliers, facts) ==
  [supplierProducts |-> suppliers, nutrientFacts |-> facts]
Ingredient(name) == [ingredientName |-> name]

\* Cost per gram of a supplier's offer.
getNormalizedCost(supplier) ==
  WithValue(convertUnitsWithFallback(supplier.supplierProductUoM,
                                     "grams", "mass"), LAMBDA g :
    IF ~g.ok THEN Throw(g.error)
    ELSE Return(Div(supplier.supplierPrice, g.value.uomAmount)))

\* selectedSupplier before any supplier was kept.
null == [isNull |-> TRUE]

\* The (product, supplier) positions of a candidate list, in iteration order.
RECURSIVE PositionsFrom(_, _)
PositionsFrom(ps, p) ==
  IF p > Len(ps) THEN << >>
  ELSE [s \in 1..Len(ps[p].supplierProducts) |-> << p, s >>]
         \o PositionsFrom(ps, p + 1)
Positions(ps) == PositionsFrom(ps, 1)

SupplierAt(ps, pos) == ps[pos[1]].supplierProducts[pos[2]]

\* Mutant: <= in place of <, so a later supplier of equal cost replaces the
\* one kept.
IsCheaperOrEqual(normalizedCost, lowestNormalizedCost) ==
  Le(normalizedCost, lowestNormalizedCost)

\* The comparison that lets a supplier replace the one kept so far.
IsCheaper(normalizedCost, lowestNormalizedCost) ==
  Lt(normalizedCost, lowestNormalizedCost)

NoSupplierFound(ing) ==
  [kind |-> "NoSupplierFound", ingredientName |-> ing.ingredientName]

\* Mutant: a supplier whose cost cannot be computed is skipped, as if the
\* call of getNormalizedCost were wrapped in a try/catch.
RECURSIVE SupplierLoopSkippingFailures(_, _, _, _, _, _)
SupplierLoopSkippingFailures(ing, ps, todo, k, lowestNormalizedCost, selectedSupplier) ==
  IF k > Len(todo)
  THEN IF selectedSupplier = null
       THEN Throw(NoSupplierFound(ing))
       ELSE Return(selectedSupplier)
  ELSE
    WithValue(SupplierAt(ps, todo[k]), LAMBDA supplier :
    WithValue(getNormalizedCost(supplier), LAMBDA normalizedCost :
      IF normalizedCost.ok
           /\ IsCheaper(normalizedCost.value, lowestNormalizedCost)
        THEN WithValue(
               [cost |-> normalizedCost.value,
                product |-> ps[todo[k][1]],
                supplier |-> supplier,
                at |-> todo[k]],
               LAMBDA kept :
                 SupplierLoopSkippingFailures(ing, ps, todo, k + 1,
                                              kept.cost, kept))
        ELSE SupplierLoopSkippingFailures(ing, ps, todo, k + 1,
                                          lowestNormalizedCost,
                                          selectedSupplier)))

\* The two nested loops, from position k on, then the final check.
\* `at` stands for the identity of the kept product and supplier objects.
RECURSIVE SupplierLoop(_, _, _, _, _, _)
SupplierLoop(ing, ps, todo, k, lowestNormalizedCost, selectedSupplier) ==
  IF k > Len(todo)
  THEN IF selectedSupplier = null
       THEN Throw(NoSupplierFound(ing))
       ELSE Return(selectedSupplier)
  ELSE
    WithValue(SupplierAt(ps, todo[k]), LAMBDA supplier :
    WithValue(getNormalizedCost(supplier), LAMBDA normalizedCost :
      IF ~normalizedCost.ok THEN Throw(normalizedCost.error)
      ELSE IF IsCheaper(normalizedCost.value, lowestNormalizedCost)
        THEN WithValue(
               [cost |-> normalizedCost.value,
                product |-> ps[todo[k][1]],
                supplier |-> supplier,
                at |-> todo[k]],
               LAMBDA kept : SupplierLoop(ing, ps, todo, k + 1, kept.cost, kept))
        ELSE SupplierLoop(ing, ps, todo, k + 1, lowestNormalizedCost,
                          selectedSupplier)))

findCheapestSupplier(ing, ps) ==
  WithValue(ps, LAMBDA list :
  WithValue(Positions(list), LAMBDA todo :
    SupplierLoop(ing, list, todo, 1, Infinity, null)))

\* ------------------------------------------------------------ nutrients

\* Nutrient names are strings, held as their sequences of UTF-16 code units.
Calcium == << 67, 97, 108, 99, 105, 117, 109 >>
Iron == << 73, 114, 111, 110 >>
Protein == << 80, 114, 111, 116, 101, 105, 110 >>
Zinc == << 90, 105, 110, 99 >>

NutrientFact(name, amount, per) ==
  [nutrientName |-> name, quantityAmount |-> amount, quantityPer |-> per]

BaseUnitName(type) ==
  CASE type = "mass" -> "grams"
    [] type = "volume" -> "millilitres"
    [] OTHER -> "whole"

\* Both quantities of a fact in the base unit of their own kind.
GetNutrientFactInBaseUnits(fact) ==
  WithValue(ConvertUnits(fact.quantityAmount,
                         BaseUnitName(fact.quantityAmount.uomType),
                         fact.quantityAmount.uomType), LAMBDA a :
  WithValue(ConvertUnits(fact.quantityPer,
                         BaseUnitName(fact.quantityPer.uomType),
                         fact.quantityPer.uomType), LAMBDA p :
    IF ~a.ok THEN Throw(a.error)
    ELSE IF ~p.ok THEN Throw(p.error)
    ELSE Return(NutrientFact(fact.nutrientName, a.value, p.value))))

\* A nutrient map is the sequence of its entries in insertion order.
Keys(map) == [k \in 1..Len(map) |-> map[k].nutrientName]
HasKey(map, name) == \E k \in 1..Len(map) : map[k].nutrientName = name
Lookup(map, name) == map[CHOOSE k \in 1..Len(map) : map[k].nutrientName = name]

\* The entry created for a nutrient name seen for the first time.
InitialEntry(baseFact) ==
  NutrientFact(baseFact.nutrientName,
               UoM(Num(0), baseFact.quantityAmount.uomName,
                   baseFact.quantityAmount.uomType),
               baseFact.quantityPer)

\* Mutant: the line item's full nutrient yield, without the normalization.
FullYieldValue(baseFact, ingredientAmountInBaseUnit, normalizedAmount) ==
  Mul(Div(baseFact.quantityAmount.uomAmount, baseFact.quantityPer.uomAmount),
      ingredientAmountInBaseUnit)

\* The value one fact adds for one line item.
NormalizedValue(baseFact, ingredientAmountInBaseUnit, normalizedAmount) ==
  LET nutrientPerBaseUnit ==
        Div(baseFact.quantityAmount.uomAmount, baseFact.quantityPer.uomAmount)
      totalNutrientAmount == Mul(nutrientPerBaseUnit, ingredientAmountInBaseUnit)
  IN Mul(Div(totalNutrientAmount, normalizedAmount),
         baseFact.quantityPer.uomAmount)

\* Mutant: = in place of +=.
OverwriteEntry(map, name, normalizedValue) ==
  [k \in 1..Len(map) |->
     IF map[k].nutrientName = name
     THEN [map[k] EXCEPT !.quantityAmount.uomAmount = normalizedValue]
     ELSE map[k]]

\* nutrientMap[name].quantityAmount.uomAmount += normalizedValue
AddToEntry(map, name, normalizedValue) ==
  [k \in 1..Len(map) |->
     IF map[k].nutrientName = name
     THEN [map[k] EXCEPT !.quantityAmount.uomAmount = Add(@, normalizedValue)]
     ELSE map[k]]

\* One pass of the loop over the facts: the map after fact `fact`.
FactStep(requiredUoM, fact, normalizedAmount, map) ==
  WithValue(GetNutrientFactInBaseUnits(fact), LAMBDA base :
    IF ~base.ok THEN Throw(base.error)
    ELSE
      WithValue(base.value, LAMBDA baseFact :
      WithValue(IF HasKey(map, baseFact.nutrientName) THEN map
                ELSE Append(map, InitialEntry(baseFact)), LAMBDA map1 :
      WithValue(convertUnitsWithFallback(requiredUoM,
                  baseFact.quantityPer.uomName,
                  baseFact.quantityPer.uomType), LAMBDA inBase :
        IF ~inBase.ok THEN Throw(inBase.error)
        ELSE WithValue(NormalizedValue(baseFact, inBase.value.uomAmount,
                                       normalizedAmount), LAMBDA normalizedValue :
               Return(AddToEntry(map1, baseFact.nutrientName,
                                 normalizedValue)))))))

\* The loop over the selected product's nutrient facts, from fact k on.
RECURSIVE FactLoop(_, _, _, _, _)
FactLoop(requiredUoM, facts, k, normalizedAmount, map) ==
  IF k > Len(facts) THEN Return(map)
  ELSE WithValue(FactStep(requiredUoM, facts[k], normalizedAmount, map),
         LAMBDA step :
           IF ~step.ok THEN step
           ELSE FactLoop(requiredUoM, facts, k + 1, normalizedAmount,
                         step.value))

\* Mutant: the required grams times the quoted price, not the cost per gram.
IngredientCostByPrice(normalizedAmount, selectedSupplier) ==
  Mul(normalizedAmount, selectedSupplier.supplier.supplierPrice)

\* The cost a line item adds to the recipe.
IngredientCost(normalizedAmount, selectedSupplier) ==
  Mul(normalizedAmount, selectedSupplier.cost)

\* Returns the line item's cost and the nutrient map after its contribution.
calculateNutrientContribution(requiredUoM, selectedSupplier, map) ==
  WithValue(convertUnitsWithFallback(requiredUoM, "grams", "mass"), LAMBDA g :
    IF ~g.ok THEN Throw(g.error)
    ELSE
      WithValue(g.value.uomAmount, LAMBDA normalizedAmount :
      WithValue(FactLoop(requiredUoM, selectedSupplier.product.nutrientFacts,
                         1, normalizedAmount, map), LAMBDA after :
        IF ~after.ok THEN Throw(after.error)
        ELSE [ok |-> TRUE,
              value |-> IngredientCost(normalizedAmount, selectedSupplier),
              nutrientMap |-> after.value])))

\* ------------------------------------------------------------ sorting

\* a < b as Array.prototype.sort compares strings: by code units, a proper
\* prefix first.
RECURSIVE StrLessFrom(_, _, _)
StrLessFrom(a, b, k) ==
  IF k > Len(a) THEN k <= Len(b)
  ELSE IF k > Len(b) THEN FALSE
  ELSE IF a[k] < b[k] THEN TRUE
  ELSE IF a[k] > b[k] THEN FALSE
  ELSE StrLessFrom(a, b, k + 1)
StrLess(a, b) == StrLessFrom(a, b, 1)

\* `sorted` with x put before the first element greater than it.
RECURSIVE Insert(_, _)
Insert(sorted, x) ==
  IF sorted = << >> THEN << x >>
  ELSE IF StrLess(x, Head(sorted)) THEN << x >> \o sorted
  ELSE WithValue(Tail(sorted),
                 LAMBDA rest : << Head(sorted) >> \o Insert(rest, x))

RECURSIVE SortFrom(_, _, _)
SortFrom(keys, k, sorted) ==
  IF k > Len(keys) THEN sorted
  ELSE WithValue(Insert(sorted, keys[k]),
                 LAMBDA longer : SortFrom(keys, k + 1, longer))

\* Mutant: the keys are not sorted.
InsertionOrderKeys(map) == Keys(map)

\* Object.keys(nutrientMap).sort()
SortedKeys(map) == WithValue(Keys(map), LAMBDA keys : SortFrom(keys, 1, << >>))

sortNutrientsAlphabetically(map) ==
  WithValue(SortedKeys(map),
            LAMBDA sorted : [k \in 1..Len(sorted) |-> Lookup(map, sorted[k])])

\* ------------------------------------------------------------ summary

\* An object with no keys.
EmptyObject == << >>

\* obj[key] = value
Assign(obj, key, value) ==
  [k \in DOMAIN obj \cup { key } |-> IF k = key THEN value ELSE obj[k]]

GetProductsForIngredient(ing) == products[ing.ingredientName]

\* Mutant: the running cost is carried over from the previous recipe.
CarriedTotalCost(previous) == previous

\* The accumulators a recipe starts from.
FreshTotalCost(previous) == Num(0)
FreshNutrientMap(previous) == << >>

\* One pass of the inner loop body.
LineItemOutcome(lineItem, map) ==
  WithValue(GetProductsForIngredient(lineItem.ingredient),
    LAMBDA availableProductsOfItem :
  WithValue(findCheapestSupplier(lineItem.ingredient, availableProductsOfItem),
    LAMBDA selectedSupplier :
      IF ~selectedSupplier.ok THEN Throw(selectedSupplier.error)
      ELSE calculateNutrientContribution(lineItem.unitOfMeasure,
                                         selectedSupplier.value, map)))

RecipeEntry(cost, map) ==
  [cheapestCost |-> cost,
   nutrientsAtCheapestCost |-> sortNutrientsAlphabetically(map)]

\* Mutant: the entries stored before the failure are delivered all the same.
ResultAfterThrowKeepsStored(localSummary, global) == localSummary

\* What the global result object holds once the call has thrown: the
\* assignment after the call never runs.
ResultAfterThrow(localSummary, global) == global

\* ------------------------------------------------------------ data

NoError == [kind |-> "none"]
NoConversion == [ok |-> FALSE, error |-> NoError, calls |-> << >>]
NoSelection == [ok |-> FALSE, error |-> NoError]

Grams(a) == UoM(Num(a), "grams", "mass")
Kilograms(a) == UoM(Num(a), "kilogram", "mass")
Millilitres(a) == UoM(Num(a), "millilitres", "volume")
Cups(a) == UoM(Num(a), "cups", "volume")
Whole(a) == UoM(Num(a), "whole", "count")

\* What GetProductsForIngredient answers.
Catalog ==
  [name \in { "oats", "flour", "milk", "ghost" } |->
    CASE name = "oats" ->
           << Product(<< SupplierProduct(Num(2), Grams(1000)) >>,
                      << NutrientFact(Protein, Grams(10), Grams(100)) >>) >>
      [] name = "flour" ->
           << Product(<< SupplierProduct(Num(3), Kilograms(1)),
                         SupplierProduct(Num(2), Grams(1000)) >>,
                      << NutrientFact(Zinc, Grams(2), Grams(100)),
                         NutrientFact(Protein, Grams(12), Grams(100)),
                         NutrientFact(Iron, Grams(1), Kilograms(1)) >>),
              Product(<< SupplierProduct(Num(2), Kilograms(1)) >>,
                      << NutrientFact(Protein, Grams(50), Grams(100)) >>) >>
      [] name = "milk" ->
           << Product(<< SupplierProduct(Num(1), Cups(4)) >>,
                      << NutrientFact(Protein, Grams(3), Millilitres(100)),
                         NutrientFact(Calcium, Grams(1), Millilitres(1000)) >>) >>
      [] OTHER -> << >>]

LineItem(name, uom) == [ingredient |-> Ingredient(name), unitOfMeasure |-> uom]
LineItemOptions ==
  { LineItem("oats", Grams(500)), LineItem("flour", Kilograms(1)),
    LineItem("milk", Cups(2)), LineItem("milk", Kilograms(1)),
    LineItem("ghost", Grams(1)) }

RecipeNames ==
  << "recipe1", "recipe2", "recipe3", "recipe4", "recipe5", "recipe6", "recipe7" >>
Recipe(name, lineItems) == [recipeName |-> name, lineItems |-> lineItems]

\* l with one more line item in its last recipe.
AddLineItem(l, item) ==
  [l EXCEPT ![Len(l)].lineItems = Append(@, item)]

\* l itself and l with one more recipe or line item.
RecipeExtensions(l) ==
  { l, Append(l, Recipe(RecipeNames[Len(l) + 1], << >>)) }
    \cup (IF Len(l) = 0 THEN { }
          ELSE { AddLineItem(l, item) : item \in LineItemOptions })

\* The recipe lists of at most n recipes and line items together; recipe
\* names are distinct.
RECURSIVE RecipeLists(_)
RecipeLists(n) ==
  IF n = 0 THEN { << >> }
  ELSE UNION { RecipeExtensions(l) : l \in RecipeLists(n - 1) }

SupplierOptions ==
  { SupplierProduct(Num(2), Grams(1000)), SupplierProduct(Num(2), Kilograms(1)),
    SupplierProduct(Num(3), Kilograms(1)), SupplierProduct(Num(1), Cups(4)),
    SupplierProduct(Num(1), Whole(1)), SupplierProduct(Num(3), Grams(0)),
    SupplierProduct(Num(0), Grams(0)) }

\* l with one more supplier in its last product.
AddSupplier(l, supplier) ==
  [l EXCEPT ![Len(l)].supplierProducts = Append(@, supplier)]

\* l itself and l with one more product or supplier.
CandidateExtensions(l) ==
  { l, Append(l, Product(<< >>, << >>)) }
    \cup (IF Len(l) = 0 THEN { }
          ELSE { AddSupplier(l, s) : s \in SupplierOptions })

\* The candidate lists of at most n products and suppliers together.
RECURSIVE CandidateLists(_)
CandidateLists(n) ==
  IF n = 0 THEN { << >> }
  ELSE UNION { CandidateExtensions(l) : l \in CandidateLists(n - 1) }

Amounts == (0..MaxAmount) \cup { 500, 1000 }

\* Tables the whole run is checked under: density 2, and no density at all.
RunTables == { DenseTable, FullTable \ { MlToG } }

ConvertIdle ==
  /\ fromUoM = Grams(0) /\ toUoMName = "grams" /\ toUoMType = "mass"
  /\ conversion = NoConversion
SelectIdle ==
  /\ ingredient = Ingredient("none") /\ availableProducts = << >>
  /\ selection = NoSelection
RunIdle ==
  /\ recipes = << >> /\ products = EmptyObject
  /\ recipeIndex = 1 /\ lineIndex = 1
  /\ totalCost = Num(0) /\ nutrientMap = << >>
  /\ summary = EmptyObject /\ recipeSummary = EmptyObject
  /\ thrown = NoError

\* ------------------------------------------------------------ SpecConvert
\* convertUnitsWithFallback applied to one input.

InitConvert ==
  /\ table \in Tables
  /\ pc = "call"
  /\ \E a \in Amounts, u \in Units : fromUoM = UoM(Num(a), u.uomName, u.uomType)
  /\ \E u \in Units : toUoMName = u.uomName /\ toUoMType = u.uomType
  /\ conversion = NoConversion
  /\ SelectIdle /\ RunIdle

Convert ==
  /\ pc = "call"
  /\ conversion' = convertUnitsWithFallback(fromUoM, toUoMName, toUoMType)
  /\ pc' = "done"
  /\ UNCHANGED << table, fromUoM, toUoMName, toUoMType, selectVars, inputVars,
                  runVars >>

NextConvert == Convert

SpecConvert == InitConvert /\ [][NextConvert]_vars

\* ------------------------------------------------------------ SpecSelect
\* findCheapestSupplier applied to one candidate list.

InitSelect ==
  /\ table \in Tables
  /\ pc = "call"
  /\ ingredient = Ingredient("flour")
  /\ availableProducts \in CandidateLists(MaxCandidates)
  /\ selection = NoSelection
  /\ ConvertIdle /\ RunIdle

Select ==
  /\ pc = "call"
  /\ selection' = findCheapestSupplier(ingredient, availableProducts)
  /\ pc' = "done"
  /\ UNCHANGED << table, ingredient, availableProducts, convertVars, inputVars,
                  runVars >>

NextSelect == Select

SpecSelect == InitSelect /\ [][NextSelect]_vars

\* ------------------------------------------------------------ Spec
\* calculateRecipeSummary(recipeData) and the assignment of its result.

Init ==
  /\ table \in RunTables
  /\ pc = "recipe"
  /\ recipes \in RecipeLists(MaxRecipeData)
  /\ products = Catalog
  /\ recipeIndex = 1 /\ lineIndex = 1
  /\ totalCost = Num(0) /\ nutrientMap = << >>
  /\ summary = EmptyObject /\ recipeSummary = EmptyObject
  /\ thrown = NoError
  /\ ConvertIdle /\ SelectIdle

\* The outer loop takes the next recipe and creates its accumulators.
BeginRecipe ==
  /\ pc = "recipe"
  /\ recipeIndex <= Len(recipes)
  /\ totalCost' = FreshTotalCost(totalCost)
  /\ nutrientMap' = FreshNutrientMap(nutrientMap)
  /\ lineIndex' = 1
  /\ pc' = "lineItem"
  /\ UNCHANGED << table, convertVars, selectVars, inputVars, recipeIndex,
                  summary, recipeSummary, thrown >>

\* The inner loop body completes for the next line item.
ProcessLineItem ==
  /\ pc = "lineItem"
  /\ lineIndex <= Len(recipes[recipeIndex].lineItems)
  /\ \E o \in { LineItemOutcome(recipes[recipeIndex].lineItems[lineIndex],
                                  nutrientMap) } :
        /\ o.ok
        /\ totalCost' = Add(totalCost, o.value)
        /\ nutrientMap' = o.nutrientMap
  /\ lineIndex' = lineIndex + 1
  /\ UNCHANGED << table, pc, convertVars, selectVars, inputVars, recipeIndex,
                  summary, recipeSummary, thrown >>

\* The inner loop body throws: the error leaves calculateRecipeSummary and
\* the module, and the result object is never assigned.
LineItemThrows ==
  /\ pc = "lineItem"
  /\ lineIndex <= Len(recipes[recipeIndex].lineItems)
  /\ \E o \in { LineItemOutcome(recipes[recipeIndex].lineItems[lineIndex],
                                  nutrientMap) } :
        /\ ~o.ok
        /\ thrown' = o.error
  /\ recipeSummary' = ResultAfterThrow(summary, recipeSummary)
  /\ pc' = "threw"
  /\ UNCHANGED << table, convertVars, selectVars, inputVars, recipeIndex,
                  lineIndex, totalCost, nutrientMap, summary >>

\* After the last line item: sort the nutrients and store the recipe's entry.
StoreRecipe ==
  /\ pc = "lineItem"
  /\ lineIndex > Len(recipes[recipeIndex].lineItems)
  /\ summary' = Assign(summary, recipes[recipeIndex].recipeName,
                       RecipeEntry(totalCost, nutrientMap))
  /\ recipeIndex' = recipeIndex + 1
  /\ pc' = "recipe"
  /\ UNCHANGED << table, convertVars, selectVars, inputVars, lineIndex,
                  totalCost, nutrientMap, recipeSummary, thrown >>

\* After the last recipe: return, and Object.assign(recipeSummary, summary).
ReturnSummary ==
  /\ pc = "recipe"
  /\ recipeIndex > Len(recipes)
  /\ recipeSummary' = summary
  /\ pc' = "returned"
  /\ UNCHANGED << table, convertVars, selectVars, inputVars, recipeIndex,
                  lineIndex, totalCost, nutrientMap, summary, thrown >>

Next ==
  \/ BeginRecipe
  \/ ProcessLineItem
  \/ LineItemThrows
  \/ StoreRecipe
  \/ ReturnSummary

Spec == Init /\ [][Next]_vars

\* ------------------------------------------------------------ claims: conversion

DirectAttempt == ConvertUnits(fromUoM, toUoMName, toUoMType)
VolumeToMass == fromUoM.uomType = "volume" /\ toUoMType = "mass"
MassToVolume == fromUoM.uomType = "mass" /\ toUoMType = "volume"

\* Three single-hop conversions in a row, stated hop by hop.
ThreeHops(from, n1, t1, n2, t2, n3, t3) ==
  LET h1 == ConvertUnits(from, n1, t1)
  IN IF ~h1.ok THEN h1
     ELSE LET h2 == ConvertUnits(h1.value, n2, t2)
          IN IF ~h2.ok THEN h2 ELSE ConvertUnits(h2.value, n3, t3)

PivotPath ==
  IF VolumeToMass
  THEN ThreeHops(fromUoM, "millilitres", "volume", "grams", "mass",
                 toUoMName, "mass")
  ELSE ThreeHops(fromUoM, "grams", "mass", "millilitres", "volume",
                 toUoMName, "volume")

\* C5: after a failed direct attempt, a volume -> mass conversion is exactly
\* source -> millilitres -> grams -> target, a mass -> volume conversion is
\* exactly source -> grams -> millilitres -> target, it fails when one of the
\* three hops fails, and no more than three hops follow the direct attempt;
\* 1000 ml at 1 g/ml converts to 1000 g.
C5_FallbackIsThreeHops ==
  pc = "done" =>
    /\ (~DirectAttempt.ok /\ (VolumeToMass \/ MassToVolume)) =>
         /\ conversion.ok = PivotPath.ok
         /\ conversion.ok => conversion.value = PivotPath.value
         /\ Len(conversion.calls) <= 4
         /\ conversion.calls[1] = Call(fromUoM, toUoMName, toUoMType)
    /\ (MlToG \in table /\ fromUoM = Millilitres(1000)
          /\ toUoMName = "grams" /\ toUoMType = "mass") =>
         (conversion.ok /\ conversion.value = Grams(1000))

C5_Witness ==
  /\ pc = "done"
  /\ fromUoM = Cups(2) /\ toUoMName = "kilogram"
  /\ ~DirectAttempt.ok
  /\ conversion.ok /\ conversion.value = UoM(Frac(1, 2), "kilogram", "mass")
  /\ Len(conversion.calls) = 4

\* C6 as stated: whenever no result is produced after the direct attempt
\* failed, the error is the descriptive one naming source and target.
C6_AlwaysDescriptiveError ==
  (pc = "done" /\ ~DirectAttempt.ok /\ ~conversion.ok) =>
    conversion.error = UnsupportedConversion(fromUoM, toUoMName, toUoMType)

\* The error of the last ConvertUnits call made.
LastHopError ==
  LET c == conversion.calls[Len(conversion.calls)]
  IN ConvertUnits(c.from, c.toName, c.toType).error

\* C6, amended: after a failed direct attempt, a pair that is neither
\* volume -> mass nor mass -> volume fails at once with the descriptive error
\* naming source and target; when a hop of the fallback fails, the error of
\* that single-hop conversion propagates unchanged; a value is returned only
\* as the result of the three hops.
C6_ErrorsAfterFailedDirect ==
  (pc = "done" /\ ~DirectAttempt.ok) =>
    /\ ~(VolumeToMass \/ MassToVolume) =>
         /\ ~conversion.ok
         /\ conversion.error
              = UnsupportedConversion(fromUoM, toUoMName, toUoMType)
         /\ Len(conversion.calls) = 1
    /\ ((VolumeToMass \/ MassToVolume) /\ ~conversion.ok) =>
         /\ Len(conversion.calls) > 1
         /\ conversion.error = LastHopError
         /\ conversion.error.kind = "NoTableEntry"
    /\ conversion.ok =>
         /\ VolumeToMass \/ MassToVolume
         /\ conversion.value = PivotPath.value

C6_Witness ==
  /\ pc = "done"
  /\ fromUoM = Cups(2) /\ toUoMName = "grams"
  /\ ~DirectAttempt.ok /\ ~conversion.ok
  /\ Len(conversion.calls) = 3
  /\ conversion.error.kind = "NoTableEntry"

\* ------------------------------------------------------------ claims: selection

Candidates == Positions(availableProducts)
CostAt(pos) == getNormalizedCost(SupplierAt(availableProducts, pos))
EveryCostComputed ==
  \A k \in 1..Len(Candidates) : CostAt(Candidates[k]).ok
\* The place of a position in iteration order.
PlaceOf(pos) == CHOOSE k \in 1..Len(Candidates) : Candidates[k] = pos

\* The selection is a supplier of the list, carries that supplier's cost, no
\* supplier with a comparable cost is cheaper, and none of equal cost comes
\* earlier.
SelectedIsFirstCheapest ==
  /\ selection.ok
  /\ \E k \in 1..Len(Candidates) : Candidates[k] = selection.value.at
  /\ selection.value.supplier = SupplierAt(availableProducts, selection.value.at)
  /\ selection.value.product = availableProducts[selection.value.at[1]]
  /\ selection.value.cost = CostAt(selection.value.at).value
  /\ \A k \in 1..Len(Candidates) :
       LET c == CostAt(Candidates[k]).value
       IN /\ ~IsNaN(c) => Le(selection.value.cost, c)
          /\ c = selection.value.cost => PlaceOf(selection.value.at) <= k

\* C2 as stated: any non-empty candidate list whose costs can all be computed
\* yields a supplier that is cheapest among all suppliers, first among ties.
C2_NonEmptyListYieldsCheapest ==
  (pc = "done" /\ Len(availableProducts) > 0 /\ EveryCostComputed) =>
    /\ SelectedIsFirstCheapest
    /\ \A k \in 1..Len(Candidates) :
         Le(selection.value.cost, CostAt(Candidates[k]).value)

\* C2, amended: when every cost can be computed and at least one supplier
\* has a finite cost, the selection is a supplier whose cost per gram is at
\* most that of every supplier with a comparable (non-NaN) cost, and the
\* first in input order among those of minimal cost.
C2_FiniteCostYieldsFirstCheapest ==
  (/\ pc = "done"
   /\ EveryCostComputed
   /\ \E k \in 1..Len(Candidates) : IsFinite(CostAt(Candidates[k]).value)) =>
    SelectedIsFirstCheapest

C2_Witness ==
  /\ pc = "done"
  /\ EveryCostComputed
  /\ selection.ok
  /\ Len(availableProducts) = 2
  /\ \E k \in 1..Len(Candidates) :
       /\ Candidates[k] # selection.value.at
       /\ Candidates[k][1] = 2
       /\ CostAt(Candidates[k]).value = selection.value.cost

\* C4 as stated: the no-supplier error is raised exactly when there is no
\* supplier or every cost computation fails, and one computable supplier is
\* enough for the selection to succeed with the cheapest computable one.
C4_FailingSuppliersAreSkipped ==
  pc = "done" =>
    /\ (~selection.ok /\ selection.error = NoSupplierFound(ingredient))
         <=> (\A k \in 1..Len(Candidates) : ~CostAt(Candidates[k]).ok)
    /\ (\E k \in 1..Len(Candidates) : CostAt(Candidates[k]).ok) =>
         /\ selection.ok
         /\ CostAt(selection.value.at).ok
         /\ \A k \in 1..Len(Candidates) :
              CostAt(Candidates[k]).ok =>
                ~Lt(CostAt(Candidates[k]).value, selection.value.cost)

FirstFailing ==
  CHOOSE k \in 1..Len(Candidates) :
    /\ ~CostAt(Candidates[k]).ok
    /\ \A j \in 1..(k - 1) : CostAt(Candidates[j]).ok

\* C4, amended: if the conversion of any supplier fails, the selection fails
\* with the error of the first such conversion, whatever the other suppliers
\* cost; otherwise it fails with the no-supplier error naming the ingredient
\* exactly when no supplier has a cost below Infinity (no product, no
\* supplier, or only zero package quantities), and succeeds in every other
\* case.
C4_ConversionErrorsPropagate ==
  pc = "done" =>
    IF EveryCostComputed
    THEN /\ ~selection.ok => selection.error = NoSupplierFound(ingredient)
         /\ ~selection.ok <=>
              (\A k \in 1..Len(Candidates) :
                 ~Lt(CostAt(Candidates[k]).value, Infinity))
    ELSE /\ ~selection.ok
         /\ selection.error = CostAt(Candidates[FirstFailing]).error

C4_Witness ==
  /\ pc = "done"
  /\ \E k \in 1..Len(Candidates) :
       /\ CostAt(Candidates[k]).ok
       /\ IsFinite(CostAt(Candidates[k]).value)
  /\ ~EveryCostComputed
  /\ ~selection.ok
  /\ selection.error.kind = "UnsupportedConversion"

\* ------------------------------------------------------------ claims: summary

\* The recipes whose entry has been stored.
Stored == 1..(recipeIndex - 1)
ItemsOf(r) == recipes[r].lineItems
EntryOf(r) == summary[recipes[r].recipeName]

\* What the claims say of one line item, from the selection and the converter.
SelectedFor(item) ==
  findCheapestSupplier(item.ingredient, products[item.ingredient.ingredientName])
GramsOf(item) ==
  convertUnitsWithFallback(item.unitOfMeasure, "grams", "mass").value.uomAmount

\* Sum over the first k line items, in input order, starting from 0.
RECURSIVE CostSum(_, _)
CostSum(items, k) ==
  IF k = 0 THEN Num(0)
  ELSE Add(CostSum(items, k - 1),
           Mul(GramsOf(items[k]), SelectedFor(items[k]).value.cost))

EndToEndItem == LineItem("oats", Grams(500))
EndToEnd == << Recipe("recipe1", << EndToEndItem >>) >>

\* C1: the cheapestCost of every recipe processed without error is the sum,
\* over its line items in input order and starting from 0, of the required
\* quantity in grams times the selected supplier's cost per gram; 500 g at
\* 2.00 per 1000 g costs 1.00.
C1_CostIsSumOverLineItems ==
  /\ \A r \in Stored :
       /\ EntryOf(r).cheapestCost = CostSum(ItemsOf(r), Len(ItemsOf(r)))
       /\ ItemsOf(r) = << EndToEndItem >> => EntryOf(r).cheapestCost = Num(1)
  /\ pc = "returned" => recipeSummary = summary

C1_Witness ==
  /\ pc = "returned"
  /\ \E r \in Stored :
       /\ Len(ItemsOf(r)) = 2
       /\ ItemsOf(r)[1].unitOfMeasure.uomName # ItemsOf(r)[2].unitOfMeasure.uomName
       /\ recipeSummary[recipes[r].recipeName].cheapestCost
            = CostSum(ItemsOf(r), 2)
  /\ \E r \in Stored :
       /\ ItemsOf(r) = << EndToEndItem >>
       /\ recipeSummary[recipes[r].recipeName].cheapestCost = Num(1)

\* C3 as stated: the end-to-end scenario reports 50 g of protein per 100 g.
C3_EndToEndReportsFullYield ==
  (pc = "returned" /\ recipes = EndToEnd) =>
    recipeSummary["recipe1"].nutrientsAtCheapestCost
      = << NutrientFact(Protein, Grams(50), Grams(100)) >>

\* C3, amended: the end-to-end scenario reports 10 g of protein on a basis
\* of 100 g: the yield of 50 g is divided by the required 500 g and
\* multiplied by the basis of 100, and that is what is accumulated.
C3_EndToEndReportsPerBasis ==
  (pc = "returned" /\ recipes = EndToEnd) =>
    /\ recipeSummary["recipe1"].nutrientsAtCheapestCost
         = << NutrientFact(Protein, Grams(10), Grams(100)) >>
    /\ recipeSummary["recipe1"].cheapestCost = Num(1)

C3_Witness ==
  /\ pc = "returned" /\ recipes = EndToEnd
  /\ DOMAIN recipeSummary = { "recipe1" }

\* A line item's outcome on accumulators of its own.
Alone(item) == LineItemOutcome(item, << >>)
\* Whether every line item of a recipe is processed without error.
Succeeds(r) == \A k \in 1..Len(ItemsOf(r)) : Alone(ItemsOf(r)[k]).ok

\* C7 as stated: a failure aborts only the failed recipe: the error reaches
\* the caller, the failed recipe has no entry, and the recipes that process
\* without error have theirs.
C7_FailureAbortsOnlyThatRecipe ==
  pc = "threw" =>
    /\ thrown # NoError
    /\ recipes[recipeIndex].recipeName \notin DOMAIN recipeSummary
    /\ \A r \in 1..Len(recipes) :
         (r # recipeIndex /\ Succeeds(r)) =>
           recipes[r].recipeName \in DOMAIN recipeSummary

\* C7, amended: a failure in one recipe aborts the whole call: the error
\* reaches the caller, no entry is produced for the failed recipe, and no
\* entry is delivered for any other recipe either: the entries stored for
\* earlier recipes stay in the local result, the result object stays empty,
\* and no later recipe is processed.
C7_FailureAbortsTheCall ==
  pc = "threw" =>
    /\ thrown # NoError
    /\ ~Alone(ItemsOf(recipeIndex)[lineIndex]).ok
    /\ recipes[recipeIndex].recipeName \notin DOMAIN summary
    /\ DOMAIN summary = { recipes[r].recipeName : r \in Stored }
    /\ recipeSummary = EmptyObject
    /\ ~ENABLED Next

C7_Witness ==
  /\ pc = "threw"
  /\ recipeIndex = 2 /\ Len(recipes) = 3
  /\ Succeeds(1) /\ Succeeds(3)
  /\ Len(ItemsOf(1)) > 0
  /\ thrown = NoSupplierFound(Ingredient("ghost"))

\* `map` with entry e of another map merged in: amounts of one name add up,
\* and a name keeps the entry it had first.
MergeEntry(map, e) ==
  IF HasKey(map, e.nutrientName)
  THEN [k \in 1..Len(map) |->
          IF map[k].nutrientName = e.nutrientName
          THEN [map[k] EXCEPT !.quantityAmount.uomAmount =
                                 Add(@, e.quantityAmount.uomAmount)]
          ELSE map[k]]
  ELSE Append(map, e)

RECURSIVE MergeFrom(_, _, _)
MergeFrom(map, other, j) ==
  IF j > Len(other) THEN map
  ELSE WithValue(MergeEntry(map, other[j]),
                 LAMBDA merged : MergeFrom(merged, other, j + 1))

\* The maps the first k line items produce alone, merged in input order.
RECURSIVE MergedAlone(_, _)
MergedAlone(items, k) ==
  IF k = 0 THEN << >>
  ELSE WithValue(MergedAlone(items, k - 1), LAMBDA before :
       WithValue(Alone(items[k]).nutrientMap, LAMBDA alone :
         MergeFrom(before, alone, 1)))

\* C8: the amount held for a nutrient is the sum of the contributions each
\* line item makes when processed alone, and the entry keeps the quantityPer
\* of the first fact seen for the nutrient name; the stored entry reports
\* that amount.
C8_NutrientAdditivity ==
  /\ pc = "lineItem" =>
       nutrientMap = MergedAlone(ItemsOf(recipeIndex), lineIndex - 1)
  /\ (pc \in { "recipe", "returned" } /\ recipeIndex > 1) =>
       LET merged == MergedAlone(ItemsOf(recipeIndex - 1),
                                 Len(ItemsOf(recipeIndex - 1)))
           stored == EntryOf(recipeIndex - 1).nutrientsAtCheapestCost
       IN /\ Len(stored) = Len(merged)
          /\ \A e \in 1..Len(stored) :
               stored[e] = Lookup(merged, stored[e].nutrientName)

C8_Witness ==
  /\ pc = "returned"
  /\ table = DenseTable
  /\ \E r \in Stored :
       /\ ItemsOf(r) = << LineItem("flour", Kilograms(1)),
                          LineItem("milk", Cups(2)),
                          LineItem("flour", Kilograms(1)) >>
       /\ Lookup(EntryOf(r).nutrientsAtCheapestCost, Protein)
            = NutrientFact(Protein, UoM(Frac(51, 2), "grams", "mass"), Grams(100))

\* The entry stored last, while the map it was built from is still in place.
LastStored == EntryOf(recipeIndex - 1).nutrientsAtCheapestCost

\* C9: the stored nutrients are exactly the accumulated ones, each entry
\* unchanged, in ascending order of their names as strings; names inserted
\* as Zinc, Protein, Iron come out as Iron, Protein, Zinc.
C9_NutrientsSortedByName ==
  (pc \in { "recipe", "returned" } /\ recipeIndex > 1) =>
    /\ Len(LastStored) = Len(nutrientMap)
    /\ \A k \in 1..Len(nutrientMap) :
         \E j \in 1..Len(LastStored) : LastStored[j] = nutrientMap[k]
    /\ \A i, j \in 1..Len(LastStored) :
         i < j => StrLess(LastStored[i].nutrientName, LastStored[j].nutrientName)
    /\ Keys(nutrientMap) = << Zinc, Protein, Iron >> =>
         Keys(LastStored) = << Iron, Protein, Zinc >>

C9_Witness ==
  /\ pc = "recipe" /\ recipeIndex > 1
  /\ Keys(nutrientMap) = << Zinc, Protein, Iron, Calcium >>
  /\ Keys(LastStored) = << Calcium, Iron, Protein, Zinc >>

\* The summary of a recipe summarized alone: its line items folded from
\* fresh accumulators.
RECURSIVE AloneFold(_, _)
AloneFold(items, k) ==
  IF k = 0 THEN [cost |-> Num(0), map |-> << >>]
  ELSE LET before == AloneFold(items, k - 1)
           o == LineItemOutcome(items[k], before.map)
       IN [cost |-> Add(before.cost, o.value), map |-> o.nutrientMap]

SummarizedAlone(r) ==
  LET end == AloneFold(ItemsOf(r), Len(ItemsOf(r)))
  IN RecipeEntry(end.cost, end.map)

\* C10: every step leaves the recipes and the products as they were; the
\* entry a step stores for a recipe is the one the recipe gets when
\* summarized alone, the entries stored before stay as they are, and the
\* result object receives exactly these entries: nothing accumulated for
\* one recipe reaches another.
C10_FreshAccumulatorsPerRecipe ==
  [][/\ recipes' = recipes
     /\ products' = products
     /\ summary' # summary =>
          summary' = Assign(summary, recipes[recipeIndex].recipeName,
                            SummarizedAlone(recipeIndex))
     /\ recipeSummary' # recipeSummary =>
          (pc' = "returned" /\ recipeSummary' = summary)]_vars

C10_Witness ==
  /\ pc = "returned"
  /\ Len(recipes) = 2
  /\ Len(ItemsOf(1)) > 0 /\ Len(ItemsOf(2)) > 0
  /\ recipeSummary[recipes[1].recipeName] # recipeSummary[recipes[2].recipeName]
  /\ recipeSummary[recipes[2].recipeName] = SummarizedAlone(2)

====
